---------------------------- MODULE Spec2Model ----------------------------
(***************************************************************************)
(* Model of the Trello Power-Up client (src/public/js/client.js): the      *)
(* capability handlers registered with TrelloPowerUp.initialize, the badge *)
(* generator getBadges and the two popup-menu builders.                    *)
(*                                                                         *)
(* JavaScript values are modelled as follows: strings are TLA+ strings,    *)
(* arrays are sequences, object literals are records with the same field   *)
(* names, a function value is a record [fn |-> <name>, ...] that carries   *)
(* the variables its closure captured, null and undefined are the markers  *)
(* Null and Undefined.  The emoji of the source are written as their code  *)
(* points (the module is ASCII).                                           *)
(***************************************************************************)
EXTENDS Integers, Sequences, FiniteSets, TLC

VARIABLES
    ret,    \* the last handler invocation that answered at once, and its answer
    popup,  \* the popup the host currently shows
    tasks   \* the promise chains of getBadges and of the popup item callbacks

vars == <<ret, popup, tasks>>

---------------------------------------------------------------------------
(* Bounds of the model *)

\* longest options.entries list handed to 'attachment-sections'
MaxEntries == 2
\* Math.random() of the dynamic badge draws k / RandSteps, k in 0 .. RandSteps-1
RandSteps == 4
\* Math.random() of the overlay item draws k / OverlaySteps, k in 0 .. OverlaySteps-1
OverlaySteps == 2
\* promise chains (badge invocations, popup item selections) the host
\* holds at the same time
MaxTasks == 1

---------------------------------------------------------------------------
(* JavaScript values and string functions *)

Null == "<null>"
Undefined == "<undefined>"

HYPERDEV_ICON == "https://cdn.hyperdev.com/us-east-1%3A3d31b21c-01a0-4da2-8827-4bc6e88b7618%2Fhyperdev.svg"
GRAY_ICON == "https://cdn.hyperdev.com/us-east-1%3A3d31b21c-01a0-4da2-8827-4bc6e88b7618%2Ficon-gray.svg"
WHITE_ICON == "https://cdn.hyperdev.com/us-east-1%3A3d31b21c-01a0-4da2-8827-4bc6e88b7618%2Ficon-white.svg"

\* U+1F3DE (national park), U+1F449 / U+1F448 (pointing hands),
\* U+1F4BB (laptop), U+1F914 (thinking face)
EMOJI_PARK == "U+1F3DE"
EMOJI_RIGHT == "U+1F449"
EMOJI_LEFT == "U+1F448"
EMOJI_LAPTOP == "U+1F4BB"
EMOJI_THINKING == "U+1F914"

\* String.prototype.indexOf(p): the least 0-based position at which p
\* occurs in s, or -1
IndexOf(s, p) ==
    LET hits == {i \in 0 .. (Len(s) - Len(p)) : SubSeq(s, i + 1, i + Len(p)) = p}
    IN  IF hits = {} THEN -1 ELSE CHOOSE i \in hits : \A j \in hits : i <= j

UpperChar(c) ==
    CASE c = "a" -> "A" [] c = "b" -> "B" [] c = "c" -> "C" [] c = "d" -> "D"
      [] c = "e" -> "E" [] c = "f" -> "F" [] c = "g" -> "G" [] c = "h" -> "H"
      [] c = "i" -> "I" [] c = "j" -> "J" [] c = "k" -> "K" [] c = "l" -> "L"
      [] c = "m" -> "M" [] c = "n" -> "N" [] c = "o" -> "O" [] c = "p" -> "P"
      [] c = "q" -> "Q" [] c = "r" -> "R" [] c = "s" -> "S" [] c = "t" -> "T"
      [] c = "u" -> "U" [] c = "v" -> "V" [] c = "w" -> "W" [] c = "x" -> "X"
      [] c = "y" -> "Y" [] c = "z" -> "Z" [] OTHER -> c

\* String.prototype.toUpperCase()
RECURSIVE ToUpperCase(_)
ToUpperCase(s) ==
    IF Len(s) = 0 THEN ""
    ELSE UpperChar(SubSeq(s, 1, 1)) \o ToUpperCase(SubSeq(s, 2, Len(s)))

Digit(d) ==
    CASE d = 0 -> "0" [] d = 1 -> "1" [] d = 2 -> "2" [] d = 3 -> "3"
      [] d = 4 -> "4" [] d = 5 -> "5" [] d = 6 -> "6" [] d = 7 -> "7"
      [] d = 8 -> "8" [] d = 9 -> "9"

RECURSIVE NatToString(_)
NatToString(n) ==
    IF n < 10 THEN Digit(n) ELSE NatToString(n \div 10) \o Digit(n % 10)

\* (Math.random() * 100).toFixed(0) for Math.random() = k / steps:
\* the nearest integer, the larger one on a tie
RandomPercent(k, steps) == NatToString((2 * 100 * k + steps) \div (2 * steps))

---------------------------------------------------------------------------
(* How a call of a handler completes: it returns a value of some type (no *)
(* handler of the source throws)                                           *)

Return(type, v) == [kind |-> "return", type |-> type, value |-> v]

---------------------------------------------------------------------------
(* Promises (Bluebird, TrelloPowerUp.Promise) *)

\* calls counts the calls of the promise's resolve and reject functions
PendingPromise == [state |-> "pending", calls |-> 0]

\* resolve(v): settles a pending promise; a settled promise ignores it
PromiseResolve(p, v) ==
    IF p.state = "pending"
    THEN [state |-> "fulfilled", value |-> v, calls |-> p.calls + 1]
    ELSE [p EXCEPT !.calls = @ + 1]

\* reject(e)
PromiseReject(p, e) ==
    IF p.state = "pending"
    THEN [state |-> "rejected", error |-> e, calls |-> p.calls + 1]
    ELSE [p EXCEPT !.calls = @ + 1]

---------------------------------------------------------------------------
(* Inputs of the host *)

YELL_PREFIX == "http://www.nps.gov/yell/"

\* attachment and link URLs the host hands to the handlers
SampleUrls ==
    { "http://www.nps.gov/yell/",
      "http://www.nps.gov/yell/1",
      "http://www.nps.gov/acad/2",
      "http://www.nps.gov/yell",
      "see http://www.nps.gov/yell/",
      "HTTP://WWW.NPS.GOV/YELL/",
      "https://example.com",
      "" }

\* options.entries: the attachments of the card, each with its own id
EntryLists ==
    UNION { { [i \in 1 .. n |-> [id |-> i, url |-> us[i]]] :
              us \in [1 .. n -> SampleUrls] } : n \in 0 .. MaxEntries }

\* t.signUrl of the host: the URL with the host's context appended
SignUrl(url, args) == url \o "#" \o args.arg

---------------------------------------------------------------------------
(* The handlers that answer synchronously *)

\* the entries whose URL contains the prefix anywhere
ClaimedContaining(entries) ==
    LET F[i \in 0 .. Len(entries)] ==
            IF i = 0 THEN <<>>
            ELSE IF IndexOf(entries[i].url, YELL_PREFIX) >= 0
                 THEN Append(F[i - 1], entries[i]) ELSE F[i - 1]
    IN  F[Len(entries)]

\* options.entries.filter(...): the entries whose URL has the prefix at
\* position 0
Claimed(entries) ==
    LET F[i \in 0 .. Len(entries)] ==
            IF i = 0 THEN <<>>
            ELSE IF IndexOf(entries[i].url, YELL_PREFIX) = 0
                 THEN Append(F[i - 1], entries[i]) ELSE F[i - 1]
    IN  F[Len(entries)]

YellowstoneSection(claimed) ==
    [ id |-> "Yellowstone",
      claimed |-> claimed,
      icon |-> HYPERDEV_ICON,
      title |-> "Example Attachment Section: Yellowstone",
      content |-> [ type |-> "iframe",
                    url |-> SignUrl("./section.html",
                                    [arg |-> "you can pass your section args here"]),
                    height |-> 230 ] ]

\* a section per claimed attachment, and the claimed entries spliced out of
\* options.entries
AttachmentSectionsSplicing(options) ==
    LET claimed == Claimed(options.entries)
        rest == SelectSeq(options.entries, LAMBDA a : IndexOf(a.url, YELL_PREFIX) # 0)
    IN  [ outcome |-> Return("array",
                        [i \in 1 .. Len(claimed) |-> YellowstoneSection(<<claimed[i]>>)]),
          entries |-> rest ]

\* 'attachment-sections': what the call returns, and options.entries as the
\* call leaves it
AttachmentSections(options) ==
    LET claimed == Claimed(options.entries)
    IN  [ outcome |-> IF Len(claimed) > 0
                      THEN Return("array", <<YellowstoneSection(claimed)>>)
                      ELSE Return("array", <<>>),
          entries |-> options.entries ]

\* a handler that falls off its end: undefined is returned
AttachmentThumbnailNoReturn(options) == [kind |-> "return", type |-> "undefined"]

\* 'attachment-thumbnail'
AttachmentThumbnail(options) ==
    Return("object",
        [ url |-> options.url,
          title |-> EMOJI_RIGHT \o " " \o options.url \o " " \o EMOJI_LEFT,
          image |-> [url |-> HYPERDEV_ICON, logo |-> TRUE],
          openText |-> "Open Sesame" ])

\* an executor that resolves twice, first with {authorized: false}
AuthorizationStatusUnauthorized ==
    Return("promise",
        PromiseResolve(PromiseResolve(PendingPromise, [authorized |-> FALSE]),
                       [authorized |-> TRUE]))

\* 'authorization-status': new Promise((resolve) => resolve({authorized: true}))
AuthorizationStatus ==
    Return("promise", PromiseResolve(PendingPromise, [authorized |-> TRUE]))

\* a single button that carries a callback and a url
BoardButtonsBoth ==
    Return("array",
        << [ icon |-> WHITE_ICON, text |-> "Popup",
             callback |-> [fn |-> "boardButtonCallback"],
             url |-> "https://trello.com/inspiration",
             target |-> "Inspiring Boards" ] >>)

\* 'board-buttons'
BoardButtons ==
    Return("array",
        << [ icon |-> WHITE_ICON, text |-> "Popup",
             callback |-> [fn |-> "boardButtonCallback"] ],
           [ icon |-> WHITE_ICON, text |-> "URL",
             url |-> "https://trello.com/inspiration",
             target |-> "Inspiring Boards" ] >>)

\* 'card-buttons'
CardButtons ==
    Return("array",
        << [ icon |-> GRAY_ICON, text |-> "Open Popup",
             callback |-> [fn |-> "cardButtonCallback"] ],
           [ icon |-> GRAY_ICON, text |-> "Just a URL",
             url |-> "https://developers.trello.com",
             target |-> "Trello Developer Site" ] >>)

\* 'card-from-url': new Promise(function(resolve) { resolve({name, desc}) })
CardFromUrl(options) ==
    Return("promise",
        PromiseResolve(PendingPromise,
            [ name |-> EMOJI_LAPTOP \o " " \o options.url \o " " \o EMOJI_THINKING,
              desc |-> "This Power-Up knows cool things about the attached url" ]))

\* 'format-url'
FormatUrl(options) ==
    Return("object",
        [ icon |-> GRAY_ICON,
          text |-> EMOJI_RIGHT \o " " \o options.url \o " " \o EMOJI_LEFT ])

---------------------------------------------------------------------------
(* Calls of the host API through the context handle t *)

HostCall(api, args) == [api |-> api, args |-> args]

\* what the host may answer to a card('name') read
CardNames == {"Buy milk", ""}

\* the failures with which the host may reject a call
HostErrors == {"Error: request timed out", "Error: card not in context"}

ClosedPopup == [open |-> FALSE]

\* t.popup(args): the host shows the popup, replacing the one it showed
OpenPopup(args) == [open |-> TRUE, args |-> args]

SETTINGS_POPUP ==
    [title |-> "Settings", url |-> "./settings.html", height |-> 184]

\* 'show-authorization'
ShowAuthorization ==
    HostCall("popup",
        [title |-> "My Auth Popup", url |-> "./authorize.html", height |-> 140])

\* 'show-settings'
ShowSettings == HostCall("popup", SETTINGS_POPUP)

---------------------------------------------------------------------------
(* The badge generator *)

BADGE_COLORS == <<"green", "yellow", "red", "none">>

\* arr[i] of a JavaScript array: undefined outside 0 .. length-1
ArrayAt(arr, i) == IF i + 1 \in DOMAIN arr THEN arr[i + 1] ELSE Undefined

\* an index one too far: undefined for the largest draws
RandomBadgeColorOffByOne(k) == ArrayAt(BADGE_COLORS, (k * 4) \div RandSteps + 1)

\* randomBadgeColor() for Math.random() = k / RandSteps:
\* [...][Math.floor(Math.random() * 4)]
RandomBadgeColor(k) == ArrayAt(BADGE_COLORS, (k * 4) \div RandSteps)

\* the dynamic badge's function, for the two Math.random() draws it makes
DynamicBadge(k1, k2) ==
    [ title |-> "Detail Badge",
      text |-> "Dynamic " \o RandomPercent(k1, RandSteps),
      icon |-> HYPERDEV_ICON,
      color |-> RandomBadgeColor(k2),
      refresh |-> 10 ]

\* a static badge with a color outside the documented ones
BadgesStaticBlue ==
    << [ dynamic |-> [fn |-> "dynamic"] ],
       [ title |-> "Detail Badge", text |-> "Static",
         icon |-> HYPERDEV_ICON, color |-> "blue" ],
       [ title |-> "Popup Detail Badge", text |-> "Popup",
         icon |-> HYPERDEV_ICON, callback |-> [fn |-> "badgePopup"] ],
       [ title |-> "URL Detail Badge", text |-> "URL",
         icon |-> HYPERDEV_ICON, url |-> "https://trello.com/home",
         target |-> "Trello Landing Page" ] >>

\* the array getBadges resolves to
Badges ==
    << [ dynamic |-> [fn |-> "dynamic"] ],
       [ title |-> "Detail Badge", text |-> "Static",
         icon |-> HYPERDEV_ICON, color |-> Null ],
       [ title |-> "Popup Detail Badge", text |-> "Popup",
         icon |-> HYPERDEV_ICON, callback |-> [fn |-> "badgePopup"] ],
       [ title |-> "URL Detail Badge", text |-> "URL",
         icon |-> HYPERDEV_ICON, url |-> "https://trello.com/home",
         target |-> "Trello Landing Page" ] >>

\* the badge callback: context.popup({...})
BadgePopup ==
    HostCall("popup",
        [title |-> "Card Detail Badge Popup", url |-> "./settings.html", height |-> 184])

FreeTask == [kind |-> "free"]

\* getBadges(t) up to the point where it returns: t.card('name') is issued
\* and the promise of the chain .get('name').then(...) is returned
GetBadges(handler) ==
    [ kind |-> "badges",
      handler |-> handler,
      calls |-> <<HostCall("card", <<"name">>)>>,
      card |-> PendingPromise,
      console |-> <<>>,
      result |-> PendingPromise,
      dynamic |-> <<>> ]

\* a chain that answers a failed read with the badges, after a second read
GetBadgesThenRecovering(task) ==
    IF task.card.state = "fulfilled"
    THEN [task EXCEPT
            !.console = Append(@, "We just loaded the card name for fun: "
                                    \o task.card.value.name),
            !.result = PromiseResolve(@, Badges)]
    ELSE [task EXCEPT
            !.calls = Append(@, HostCall("card", <<"name">>)),
            !.result = PromiseResolve(@, Badges)]

\* the reactions of the chain once the card read has settled:
\* .get('name') and .then(function(cardName) {...})
GetBadgesThen(task) ==
    IF task.card.state = "fulfilled"
    THEN [task EXCEPT
            !.console = Append(@, "We just loaded the card name for fun: "
                                    \o task.card.value.name),
            !.result = PromiseResolve(@, Badges)]
    ELSE [task EXCEPT !.result = PromiseReject(@, task.card.error)]

---------------------------------------------------------------------------
(* The popup-menu builders *)

PARK_CODES == <<"acad", "arch", "badl", "crla", "grca", "yell", "yose">>

\* the item built for one park code, and the closure of its callback
ParkItem(parkCode) ==
    LET urlForCode == "http://www.nps.gov/" \o parkCode \o "/"
        nameForCode == EMOJI_PARK \o " " \o ToUpperCase(parkCode)
    IN  [ text |-> nameForCode,
          url |-> urlForCode,
          callback |-> [ fn |-> "attach",
                         urlForCode |-> urlForCode,
                         nameForCode |-> nameForCode ] ]

\* the catalog without its last code
CardPopupItemsShort ==
    [i \in 1 .. Len(PARK_CODES) - 1 |-> ParkItem(PARK_CODES[i])]

\* [...].map(function(parkCode) {...})
CardPopupItems == [i \in 1 .. Len(PARK_CODES) |-> ParkItem(PARK_CODES[i])]

\* cardButtonCallback(t)
CardButtonCallback ==
    HostCall("popup",
        [ title |-> "Popup Search Example",
          items |-> CardPopupItems,
          search |-> [ count |-> 5,
                       placeholder |-> "Search National Parks",
                       empty |-> "No parks found" ] ])

\* boardButtonCallback(t)
BoardButtonCallback ==
    HostCall("popup",
        [ title |-> "Popup List Example",
          items |-> << [ text |-> "Open Overlay",
                         callback |-> [fn |-> "overlay"] ],
                       [ text |-> "Open Board Bar",
                         callback |-> [fn |-> "boardBar"] ] >> ])

\* the host call a popup item's callback makes first; k is the
\* Math.random() draw of the overlay item
PrimaryCall(callback, k) ==
    CASE callback.fn = "attach" ->
            HostCall("attach",
                [url |-> callback.urlForCode, name |-> callback.nameForCode])
      [] callback.fn = "overlay" ->
            HostCall("overlay",
                [url |-> "./overlay.html", args |-> [rand |-> RandomPercent(k, OverlaySteps)]])
      [] callback.fn = "boardBar" ->
            HostCall("boardBar", [url |-> "./board-bar.html", height |-> 200])

\* a callback that closes the popup without waiting for its first call
ItemCallbackEager(item, k) ==
    [ kind |-> "item",
      item |-> item,
      calls |-> <<PrimaryCall(item.callback, k), HostCall("closePopup", <<>>)>>,
      primary |-> PendingPromise,
      close |-> PendingPromise,
      result |-> PendingPromise ]

\* a popup item's callback up to the point where it returns: the first
\* call is issued and the promise of the chain .then(...) is returned
ItemCallback(item, k) ==
    [ kind |-> "item",
      item |-> item,
      calls |-> <<PrimaryCall(item.callback, k)>>,
      primary |-> PendingPromise,
      close |-> [state |-> "none"],
      result |-> PendingPromise ]

\* the reaction .then(function() { return t.closePopup(); }) once the
\* first call has settled
ItemThen(sel) ==
    IF sel.primary.state = "fulfilled"
    THEN [sel EXCEPT !.calls = Append(@, HostCall("closePopup", <<>>)),
                     !.close = PendingPromise]
    ELSE [sel EXCEPT !.result = PromiseReject(@, sel.primary.error)]

\* the returned promise follows the promise of t.closePopup()
ItemAdopt(sel) ==
    IF sel.close.state = "fulfilled"
    THEN [sel EXCEPT !.result = PromiseResolve(@, sel.close.value)]
    ELSE [sel EXCEPT !.result = PromiseReject(@, sel.close.error)]

---------------------------------------------------------------------------
(* State after TrelloPowerUp.initialize: nothing invoked yet *)

Init ==
    /\ ret = [handler |-> "none"]
    /\ popup = ClosedPopup
    /\ tasks = [i \in 1 .. MaxTasks |-> FreeTask]

---------------------------------------------------------------------------
(* The host invokes a handler that answers at once *)

InvokeAttachmentSections ==
    \E entries \in EntryLists :
        LET options == [entries |-> entries]
            r == AttachmentSections(options)
        IN  /\ ret' = [ handler |-> "attachment-sections", options |-> options,
                        outcome |-> r.outcome, entries |-> r.entries ]
            /\ UNCHANGED <<popup, tasks>>

InvokeAttachmentThumbnail ==
    \E url \in SampleUrls :
        /\ ret' = [ handler |-> "attachment-thumbnail", options |-> [url |-> url],
                    outcome |-> AttachmentThumbnail([url |-> url]) ]
        /\ UNCHANGED <<popup, tasks>>

InvokeAuthorizationStatus ==
    /\ ret' = [handler |-> "authorization-status", outcome |-> AuthorizationStatus]
    /\ UNCHANGED <<popup, tasks>>

InvokeBoardButtons ==
    /\ ret' = [handler |-> "board-buttons", outcome |-> BoardButtons]
    /\ UNCHANGED <<popup, tasks>>

InvokeCardButtons ==
    /\ ret' = [handler |-> "card-buttons", outcome |-> CardButtons]
    /\ UNCHANGED <<popup, tasks>>

InvokeCardFromUrl ==
    \E url \in SampleUrls :
        /\ ret' = [ handler |-> "card-from-url", options |-> [url |-> url],
                    outcome |-> CardFromUrl([url |-> url]) ]
        /\ UNCHANGED <<popup, tasks>>

InvokeFormatUrl ==
    \E url \in SampleUrls :
        /\ ret' = [ handler |-> "format-url", options |-> [url |-> url],
                    outcome |-> FormatUrl([url |-> url]) ]
        /\ UNCHANGED <<popup, tasks>>

InvokeShowAuthorization ==
    /\ popup' = OpenPopup(ShowAuthorization.args)
    /\ ret' = [ handler |-> "show-authorization",
                outcome |-> Return("hostPromise", ShowAuthorization) ]
    /\ UNCHANGED tasks

InvokeShowSettings ==
    /\ popup' = OpenPopup(ShowSettings.args)
    /\ ret' = [ handler |-> "show-settings",
                outcome |-> Return("hostPromise", ShowSettings) ]
    /\ UNCHANGED tasks

Next ==
    \/ InvokeAttachmentSections
    \/ InvokeAttachmentThumbnail
    \/ InvokeAuthorizationStatus
    \/ InvokeBoardButtons
    \/ InvokeCardButtons
    \/ InvokeCardFromUrl
    \/ InvokeFormatUrl
    \/ InvokeShowAuthorization
    \/ InvokeShowSettings

Spec == Init /\ [][Next]_vars

---------------------------------------------------------------------------
(* The handlers and callbacks that answer with a promise chain *)

Settled(p) == p.state # "pending"

\* a slot of the host is usable once the chain it held has settled
Usable(i) == IF tasks[i].kind = "free" THEN TRUE ELSE Settled(tasks[i].result)

\* 'card-badges': return getBadges(t)
InvokeCardBadges(i) ==
    /\ Usable(i)
    /\ tasks' = [tasks EXCEPT ![i] = GetBadges("card-badges")]
    /\ UNCHANGED <<ret, popup>>

\* 'card-detail-badges': return getBadges(t)
InvokeCardDetailBadges(i) ==
    /\ Usable(i)
    /\ tasks' = [tasks EXCEPT ![i] = GetBadges("card-detail-badges")]
    /\ UNCHANGED <<ret, popup>>

\* the host answers t.card('name'), or fails it
HostSettlesCard(i) ==
    /\ tasks[i].kind = "badges"
    /\ ~Settled(tasks[i].card)
    /\ \/ \E n \in CardNames :
            tasks' = [tasks EXCEPT ![i].card = PromiseResolve(@, [name |-> n])]
       \/ \E e \in HostErrors :
            tasks' = [tasks EXCEPT ![i].card = PromiseReject(@, e)]
    /\ UNCHANGED <<ret, popup>>

BadgesReact(i) ==
    /\ tasks[i].kind = "badges"
    /\ Settled(tasks[i].card)
    /\ ~Settled(tasks[i].result)
    /\ tasks' = [tasks EXCEPT ![i] = GetBadgesThen(@)]
    /\ UNCHANGED <<ret, popup>>

\* the host runs the dynamic badge's function, at first and on each refresh
DynamicTick(i) ==
    /\ tasks[i].kind = "badges"
    /\ tasks[i].result.state = "fulfilled"
    /\ "dynamic" \in DOMAIN tasks[i].result.value[1]
    /\ \E k1, k2 \in 0 .. RandSteps - 1 :
            tasks' = [tasks EXCEPT ![i].dynamic = <<DynamicBadge(k1, k2)>>]
    /\ UNCHANGED <<ret, popup>>

\* the user clicks the detail badge that has a callback
ClickPopupBadge(i) ==
    /\ tasks[i].kind = "badges"
    /\ tasks[i].handler = "card-detail-badges"
    /\ tasks[i].result.state = "fulfilled"
    /\ \E b \in 1 .. Len(tasks[i].result.value) :
            /\ "callback" \in DOMAIN tasks[i].result.value[b]
            /\ popup' = OpenPopup(BadgePopup.args)
    /\ UNCHANGED <<ret, tasks>>

\* the user clicks the board button that has a callback
ClickBoardButton ==
    /\ popup' = OpenPopup(BoardButtonCallback.args)
    /\ UNCHANGED <<ret, tasks>>

\* the user clicks the card button that has a callback
ClickCardButton ==
    /\ popup' = OpenPopup(CardButtonCallback.args)
    /\ UNCHANGED <<ret, tasks>>

\* the user selects an item of the popup: the host runs its callback
SelectItem(i) ==
    /\ Usable(i)
    /\ popup.open
    /\ "items" \in DOMAIN popup.args
    /\ \E n \in 1 .. Len(popup.args.items), k \in 0 .. OverlaySteps - 1 :
            tasks' = [tasks EXCEPT ![i] = ItemCallback(popup.args.items[n], k)]
    /\ UNCHANGED <<ret, popup>>

\* the host completes t.attach / t.overlay / t.boardBar, or fails it
HostSettlesPrimary(i) ==
    /\ tasks[i].kind = "item"
    /\ ~Settled(tasks[i].primary)
    /\ \/ tasks' = [tasks EXCEPT ![i].primary = PromiseResolve(@, Undefined)]
       \/ \E e \in HostErrors :
            tasks' = [tasks EXCEPT ![i].primary = PromiseReject(@, e)]
    /\ UNCHANGED <<ret, popup>>

ItemReact(i) ==
    /\ tasks[i].kind = "item"
    /\ Settled(tasks[i].primary)
    /\ tasks[i].close.state = "none"
    /\ ~Settled(tasks[i].result)
    /\ tasks' = [tasks EXCEPT ![i] = ItemThen(@)]
    /\ UNCHANGED <<ret, popup>>

\* the host closes the popup for t.closePopup(), or fails the call
HostSettlesClose(i) ==
    /\ tasks[i].kind = "item"
    /\ tasks[i].close.state = "pending"
    /\ \/ /\ tasks' = [tasks EXCEPT ![i].close = PromiseResolve(@, Undefined)]
          /\ popup' = ClosedPopup
       \/ /\ \E e \in HostErrors :
                tasks' = [tasks EXCEPT ![i].close = PromiseReject(@, e)]
          /\ UNCHANGED popup
    /\ UNCHANGED ret

ItemFollow(i) ==
    /\ tasks[i].kind = "item"
    /\ tasks[i].close.state \in {"fulfilled", "rejected"}
    /\ ~Settled(tasks[i].result)
    /\ tasks' = [tasks EXCEPT ![i] = ItemAdopt(@)]
    /\ UNCHANGED <<ret, popup>>

\* the badge handlers and what the host does with the badges they resolve to
BadgeNext ==
    \E i \in 1 .. MaxTasks :
        \/ InvokeCardBadges(i)
        \/ InvokeCardDetailBadges(i)
        \/ HostSettlesCard(i)
        \/ BadgesReact(i)
        \/ DynamicTick(i)
        \/ ClickPopupBadge(i)

BadgeSpec == Init /\ [][BadgeNext]_vars

\* the promise chains of the badge handlers and of the popup items
AsyncNext ==
    \/ ClickBoardButton
    \/ ClickCardButton
    \/ \E i \in 1 .. MaxTasks :
        \/ InvokeCardBadges(i)
        \/ InvokeCardDetailBadges(i)
        \/ HostSettlesCard(i)
        \/ BadgesReact(i)
        \/ SelectItem(i)
        \/ HostSettlesPrimary(i)
        \/ ItemReact(i)
        \/ HostSettlesClose(i)
        \/ ItemFollow(i)

AsyncSpec == Init /\ [][AsyncNext]_vars

---------------------------------------------------------------------------
(* Properties *)

\* the claim predicate, stated on the URL's first characters
HasYellPrefix(url) ==
    /\ Len(url) >= 24
    /\ SubSeq(url, 1, 24) = "http://www.nps.gov/yell/"

COLOR_SET == {"green", "yellow", "red", "none"}

\* C1: whatever the attachment list, 'attachment-sections' returns
\* normally; every attachment claimed by a returned section has a URL that
\* starts with http://www.nps.gov/yell/, an attachment whose URL does not
\* start with it is in no section, and with no matching entry the result is
\* the empty sequence.
C1_OnlyYellowstoneClaimed ==
    ret.handler = "attachment-sections" =>
        LET secs == ret.outcome.value
            entries == ret.options.entries
        IN  /\ ret.outcome.kind = "return"
            /\ ret.outcome.type = "array"
            /\ \A s \in 1 .. Len(secs) : \A j \in 1 .. Len(secs[s].claimed) :
                    HasYellPrefix(secs[s].claimed[j].url)
            /\ \A e \in 1 .. Len(entries) :
                    ~HasYellPrefix(entries[e].url) =>
                        \A s \in 1 .. Len(secs) : \A j \in 1 .. Len(secs[s].claimed) :
                            secs[s].claimed[j] # entries[e]
            /\ (\A e \in 1 .. Len(entries) : ~HasYellPrefix(entries[e].url))
                    => secs = <<>>

\* a list with an entry that only contains the prefix and one that starts
\* with it: one section, claiming the second entry alone
C1_Witness ==
    /\ ret.handler = "attachment-sections"
    /\ Len(ret.options.entries) = 2
    /\ ret.options.entries[1].url = "see http://www.nps.gov/yell/"
    /\ ret.options.entries[2].url = "http://www.nps.gov/yell/1"
    /\ Len(ret.outcome.value) = 1
    /\ ret.outcome.value[1].claimed = <<ret.options.entries[2]>>

\* a descriptor is yielded: returned, or the value of a fulfilled promise
Answered(o) ==
    /\ o.kind = "return"
    /\ \/ o.type = "object"
       \/ o.type = "promise" /\ o.value.state = "fulfilled"

\* "not handled" is signalled: t.NotHandled() thrown, or a promise rejected
\* with it
Declined(o) ==
    \/ o.kind = "throw" /\ o.error = "NotHandled"
    \/ /\ o.kind = "return"
       /\ o.type = "promise"
       /\ o.value.state = "rejected"
       /\ o.value.error = "NotHandled"

\* C2: for any options.url, 'attachment-thumbnail', 'card-from-url' and
\* 'format-url' end in exactly one of: a descriptor is yielded, "not
\* handled" is signalled.
C2_DescriptorXorNotHandled ==
    ret.handler \in {"attachment-thumbnail", "card-from-url", "format-url"} =>
        /\ Answered(ret.outcome) \/ Declined(ret.outcome)
        /\ ~(Answered(ret.outcome) /\ Declined(ret.outcome))

C2_Witness ==
    /\ ret.handler = "format-url"
    /\ ret.options.url = "https://example.com"
    /\ Answered(ret.outcome)
    /\ ret.outcome.value =
            [icon |-> GRAY_ICON, text |-> "U+1F449 https://example.com U+1F448"]

\* C3: the promise 'authorization-status' returns is settled, by the one
\* call of its resolve function, and fulfilled with {authorized: true}.
C3_AuthorizedOnce ==
    ret.handler = "authorization-status" =>
        /\ ret.outcome.kind = "return"
        /\ ret.outcome.type = "promise"
        /\ ret.outcome.value.state = "fulfilled"
        /\ ret.outcome.value.calls = 1
        /\ ret.outcome.value.value = [authorized |-> TRUE]

C3_Witness ==
    /\ ret.handler = "authorization-status"
    /\ ret.outcome.value.state = "fulfilled"
    /\ ret.outcome.value.value.authorized

\* C4: every result of the dynamic badge function has a color among green,
\* yellow, red, none and a refresh interval of at least 10 seconds.
C4_DynamicBadgeColorAndRefresh ==
    \A i \in 1 .. MaxTasks :
        (tasks[i].kind = "badges" /\ tasks[i].dynamic # <<>>) =>
            /\ tasks[i].dynamic[1].color \in COLOR_SET
            /\ tasks[i].dynamic[1].refresh >= 10

\* the last of the four colors has been drawn
C4_Witness ==
    \E i \in 1 .. MaxTasks :
        /\ tasks[i].kind = "badges"
        /\ tasks[i].dynamic # <<>>
        /\ tasks[i].dynamic[1].color = "none"
        /\ tasks[i].dynamic[1].refresh = 10

\* C5 as claimed: every color carried by a badge descriptor of the
\* resolved badge array, the static badge included, and by a result of the
\* dynamic badge function is among green, yellow, red, none.
C5_AllColorsEnumerated ==
    \A i \in 1 .. MaxTasks :
        (tasks[i].kind = "badges" /\ tasks[i].result.state = "fulfilled") =>
            /\ \A b \in 1 .. Len(tasks[i].result.value) :
                    "color" \in DOMAIN tasks[i].result.value[b] =>
                        tasks[i].result.value[b].color \in COLOR_SET
            /\ tasks[i].dynamic # <<>> => tasks[i].dynamic[1].color \in COLOR_SET

\* C5, amended: every color carried by a badge descriptor of the resolved
\* badge array is null or among green, yellow, red, none, and the color of
\* every result of the dynamic badge function is among green, yellow, red,
\* none.
C5_ColorsEnumeratedOrNull ==
    \A i \in 1 .. MaxTasks :
        (tasks[i].kind = "badges" /\ tasks[i].result.state = "fulfilled") =>
            /\ \A b \in 1 .. Len(tasks[i].result.value) :
                    "color" \in DOMAIN tasks[i].result.value[b] =>
                        tasks[i].result.value[b].color \in COLOR_SET \cup {Null}
            /\ tasks[i].dynamic # <<>> => tasks[i].dynamic[1].color \in COLOR_SET

\* 'card-detail-badges' has resolved to the four badges, the static one
\* carrying null, and the dynamic function has run
C5_Witness ==
    \E i \in 1 .. MaxTasks :
        /\ tasks[i].kind = "badges"
        /\ tasks[i].handler = "card-detail-badges"
        /\ tasks[i].result.state = "fulfilled"
        /\ Len(tasks[i].result.value) = 4
        /\ tasks[i].result.value[2].color = Null
        /\ tasks[i].dynamic # <<>>
        /\ tasks[i].dynamic[1].color = "red"

\* C6: 'board-buttons' and 'card-buttons' return exactly two button
\* descriptors, each with a label and either a callback and no url, or a
\* url and no callback.
C6_TwoButtonsOfOneVariantEach ==
    ret.handler \in {"board-buttons", "card-buttons"} =>
        /\ ret.outcome.kind = "return"
        /\ ret.outcome.type = "array"
        /\ Len(ret.outcome.value) = 2
        /\ \A b \in 1 .. 2 :
            LET fields == DOMAIN ret.outcome.value[b]
            IN  /\ "text" \in fields
                /\ ("callback" \in fields) # ("url" \in fields)

C6_Witness ==
    /\ ret.handler = "card-buttons"
    /\ Len(ret.outcome.value) = 2
    /\ ret.outcome.value[1].callback = [fn |-> "cardButtonCallback"]
    /\ ret.outcome.value[2].url = "https://developers.trello.com"

\* C7: the popup of the card button carries exactly 7 items, the i-th for
\* the i-th code of acad, arch, badl, crla, grca, yell, yose, with pairwise
\* distinct labels and pairwise distinct URLs.
C7_SearchCatalog ==
    (popup.open /\ popup.args.title = "Popup Search Example") =>
        LET items == popup.args.items
            codes == <<"acad", "arch", "badl", "crla", "grca", "yell", "yose">>
            upper == <<"ACAD", "ARCH", "BADL", "CRLA", "GRCA", "YELL", "YOSE">>
        IN  /\ Len(items) = 7
            /\ \A n \in 1 .. 7 :
                /\ items[n].url = "http://www.nps.gov/" \o codes[n] \o "/"
                /\ items[n].text = "U+1F3DE " \o upper[n]
            /\ \A m, n \in 1 .. 7 :
                m # n => items[m].text # items[n].text /\ items[m].url # items[n].url

C7_Witness ==
    /\ popup.open
    /\ popup.args.title = "Popup Search Example"
    /\ Len(popup.args.items) = 7
    /\ popup.args.items[6].url = "http://www.nps.gov/yell/"
    /\ popup.args.search.count = 5

\* the first host call of the callback of a popup item
IsPrimaryOf(item, call) ==
    CASE item.text = "Open Overlay" -> call.api = "overlay"
      [] item.text = "Open Board Bar" -> call.api = "boardBar"
      [] OTHER -> /\ call.api = "attach"
                  /\ call.args.url = item.url
                  /\ call.args.name = item.text

\* C8: a selection of a popup item issues the item's own primary call
\* (attach of its URL and label, overlay, boardBar) exactly once, as its
\* first call; closePopup is issued at most once, only as the call after
\* the primary one and only once that has completed; and a selection whose
\* chain has completed has issued closePopup exactly once.
C8_PrimaryThenClose ==
    \A i \in 1 .. MaxTasks :
        tasks[i].kind = "item" =>
            LET calls == tasks[i].calls
                closes == {j \in 1 .. Len(calls) : calls[j].api = "closePopup"}
                primaries == {j \in 1 .. Len(calls) :
                                calls[j].api \in {"attach", "overlay", "boardBar"}}
            IN  /\ primaries = {1}
                /\ IsPrimaryOf(tasks[i].item, calls[1])
                /\ Cardinality(closes) <= 1
                /\ closes # {} => closes = {2} /\ tasks[i].primary.state = "fulfilled"
                /\ tasks[i].close.state # "none" <=> closes # {}
                /\ tasks[i].result.state = "fulfilled" => closes = {2}

\* the Yellowstone item was selected: its URL and label were attached,
\* then the popup was closed, and the chain completed
C8_Witness ==
    \E i \in 1 .. MaxTasks :
        /\ tasks[i].kind = "item"
        /\ tasks[i].item.text = "U+1F3DE YELL"
        /\ tasks[i].result.state = "fulfilled"
        /\ tasks[i].calls =
            << HostCall("attach", [url |-> "http://www.nps.gov/yell/",
                                   name |-> "U+1F3DE YELL"]),
               HostCall("closePopup", <<>>) >>
        /\ ~popup.open

\* C9: once the card-name read of a badge chain, or the primary call of a
\* popup item chain, has failed, the chain has issued that call alone (no
\* second attempt, no closePopup), its result is never fulfilled (no badge
\* sequence), and its result, once settled, is rejected with that failure.
C9_FailurePropagates ==
    \A i \in 1 .. MaxTasks :
        /\ (tasks[i].kind = "badges" /\ tasks[i].card.state = "rejected") =>
                /\ tasks[i].calls = <<HostCall("card", <<"name">>)>>
                /\ tasks[i].console = <<>>
                /\ tasks[i].result.state \in {"pending", "rejected"}
                /\ tasks[i].result.state = "rejected" =>
                        tasks[i].result.error = tasks[i].card.error
        /\ (tasks[i].kind = "item" /\ tasks[i].primary.state = "rejected") =>
                /\ Len(tasks[i].calls) = 1
                /\ tasks[i].close.state = "none"
                /\ tasks[i].result.state \in {"pending", "rejected"}
                /\ tasks[i].result.state = "rejected" =>
                        tasks[i].result.error = tasks[i].primary.error

\* attach failed, and the chain's result failed with the same failure
C9_Witness ==
    \E i \in 1 .. MaxTasks :
        /\ tasks[i].kind = "item"
        /\ tasks[i].calls[1].api = "attach"
        /\ tasks[i].primary.state = "rejected"
        /\ tasks[i].primary.error = "Error: request timed out"
        /\ tasks[i].result.state = "rejected"
        /\ tasks[i].result.error = "Error: request timed out"
        /\ popup.open

\* C10: when some entry's URL starts with http://www.nps.gov/yell/,
\* 'attachment-sections' returns exactly one section, whose claimed list
\* is the subsequence of the matching entries, and options.entries is as
\* it was.
C10_OneSectionWithTheMatches ==
    (/\ ret.handler = "attachment-sections"
     /\ \E e \in 1 .. Len(ret.options.entries) :
            HasYellPrefix(ret.options.entries[e].url)) =>
        /\ ret.outcome.kind = "return"
        /\ Len(ret.outcome.value) = 1
        /\ ret.outcome.value[1].claimed =
                SelectSeq(ret.options.entries, LAMBDA a : HasYellPrefix(a.url))
        /\ ret.entries = ret.options.entries

\* both entries match: both are claimed, in their order
C10_Witness ==
    /\ ret.handler = "attachment-sections"
    /\ Len(ret.options.entries) = 2
    /\ ret.options.entries[1].url = "http://www.nps.gov/yell/1"
    /\ ret.options.entries[2].url = "http://www.nps.gov/yell/"
    /\ Len(ret.outcome.value) = 1
    /\ ret.outcome.value[1].claimed = ret.options.entries

============================================================================
